---- MODULE Spec2Model ----
(***************************************************************************)
(* A model of reboundx's tides_spin effect (src/src/tides_spin.c): the     *)
(* force kernel, the pairwise accumulator rebx_tides_spin, the spin ODE    *)
(* (rebx_spin_initialize_ode, rebx_spin_sync_pre, rebx_spin_derivatives,   *)
(* rebx_spin_sync_post) and the two sigma helpers.                         *)
(*                                                                         *)
(* Doubles are modelled by exact rationals <<n, d>> (d > 0, lowest terms). *)
(* <<0, 0>> stands for every non-finite double (inf, -inf, NaN): with the  *)
(* operations the code uses (+, -, *, / by a finite value) a non-finite    *)
(* operand always gives a non-finite result.  Tag values, masses, radii,   *)
(* positions and velocities are integers; bodies lie on the x axis so that *)
(* sqrt(d2) is an integer.                                                 *)
(***************************************************************************)
EXTENDS Integers, Sequences, FiniteSets, TLC

\* ------------------------------------------------------------- bounds
NBodies == 2
MaxSteps == 1

\* sim->G
G == 1

Bodies == 0..(NBodies - 1)
Tags == {"k2", "sigma", "moi", "sx", "sy", "sz"}
SpinTags == {"sx", "sy", "sz"}

\* ---------------------------------------------------- double arithmetic
Abs(n) == IF n < 0 THEN -n ELSE n

RECURSIVE GCD(_, _)
GCD(a, b) == IF b = 0 THEN a ELSE GCD(b, a % b)

NaN == <<0, 0>>

Norm(n, d) ==
    IF d = 0 THEN NaN
    ELSE LET g == GCD(Abs(n), Abs(d))
             s == IF d < 0 THEN -1 ELSE 1
         IN  <<(s * n) \div g, (s * d) \div g>>

Q(n) == <<n, 1>>
Finite(a) == a[2] # 0
IsZero(a) == Finite(a) /\ a[1] = 0

RAdd(a, b) == IF Finite(a) /\ Finite(b) THEN Norm(a[1] * b[2] + b[1] * a[2], a[2] * b[2]) ELSE NaN
RNeg(a) == IF Finite(a) THEN <<-a[1], a[2]>> ELSE NaN
RSub(a, b) == RAdd(a, RNeg(b))
RMul(a, b) == IF Finite(a) /\ Finite(b) THEN Norm(a[1] * b[1], a[2] * b[2]) ELSE NaN
\* x / 0 is inf or NaN: non-finite
RDiv(a, b) == IF Finite(a) /\ Finite(b) /\ b[1] # 0 THEN Norm(a[1] * b[2], a[2] * b[1]) ELSE NaN

RECURSIVE RPow(_, _)
RPow(a, k) == IF k = 0 THEN Q(1) ELSE RMul(a, RPow(a, k - 1))

\* sqrt of a perfect square (the bodies are collinear, so d2 = dx * dx)
Sqrt(n) == CHOOSE s \in 0..n : s * s = n

Zero3 == [x |-> Q(0), y |-> Q(0), z |-> Q(0)]

\* one component of tot_force: lines 95, 107-109 and 137-139
\*   d, s: the component of the separation and of the spin; v: vec1 + vec2
ForceComponent(k2, sigma, quad_prefactor, rad, t3, prefactor, d, s, v) ==
    IF k2 # 0
    THEN IF sigma # 0
         THEN RAdd(RMul(quad_prefactor, RSub(RMul(rad, Q(d)), RMul(t3, Q(s)))), RMul(prefactor, Q(v)))
         ELSE RMul(quad_prefactor, RSub(RMul(rad, Q(d)), RMul(t3, Q(s))))
    ELSE Q(0)

\* ------------------------------------------------------- force kernel
\* source, target: particle records; k2, sigma, sx, sy, sz: integers
rebx_calculate_spin_orbit_accelerations(source, target, Gc, k2, sigma, sx, sy, sz) ==
    LET ms == source.m
        Rs == source.r
        mt == target.m
        mtot == ms + mt
        mu_ij == RDiv(Q(ms * mt), Q(mtot))
        big_a == k2 * (Rs * Rs * Rs * Rs * Rs)
        dx == source.x - target.x
        dy == source.y - target.y
        dz == source.z - target.z
        d2 == dx * dx + dy * dy + dz * dz
        dr == Q(Sqrt(d2))
        dvx == source.vx - target.vx
        dvy == source.vy - target.vy
        dvz == source.vz - target.vz
        quad_prefactor == RDiv(Q(mt * big_a), mu_ij)
        omega_dot_d == sx * dx + sy * dy + sz * dz
        omega_squared == sx * sx + sy * sy + sz * sz
        t1 == RDiv(Q(5 * omega_dot_d * omega_dot_d), RMul(Q(2), RPow(dr, 7)))
        t2 == RDiv(Q(omega_squared), RMul(Q(2), RPow(dr, 5)))
        t3 == RDiv(Q(omega_dot_d), RPow(dr, 5))
        t4 == RDiv(Q(6 * Gc * mt), RPow(dr, 8))
        d_dot_vel == dx * dvx + dy * dvy + dz * dvz
        vec1_x == 3 * d_dot_vel * dx
        vec1_y == 3 * d_dot_vel * dy
        vec1_z == 3 * d_dot_vel * dz
        hx == dy * dvz - dz * dvy
        hy == dz * dvx - dx * dvz
        hz == dx * dvy - dy * dvx
        comp_2_x == hx - d2 * sx
        comp_2_y == hy - d2 * sy
        comp_2_z == hz - d2 * sz
        vec2_x == comp_2_y * dz - comp_2_z * dy
        vec2_y == comp_2_z * dx - comp_2_x * dz
        vec2_z == comp_2_x * dy - comp_2_y * dx
        prefactor == RDiv(Q(-9 * sigma * mt * mt * big_a * big_a),
                          RMul(Q(2), RMul(mu_ij, Q(d2 * d2 * d2 * d2 * d2))))
    IN  [x |-> ForceComponent(k2, sigma, quad_prefactor, RSub(RSub(t1, t2), t4), t3, prefactor, dx, sx, vec1_x + vec2_x),
         y |-> ForceComponent(k2, sigma, quad_prefactor, RSub(RSub(t1, t2), t4), t3, prefactor, dy, sy, vec1_y + vec2_y),
         z |-> ForceComponent(k2, sigma, quad_prefactor, RSub(RSub(t1, t2), t4), t3, prefactor, dz, sz, vec1_z + vec2_z)]

\* ------------------------------------------------------------- state
VARIABLES
    particles,  \* sim->particles: [Bodies -> m, r, x, y, z, vx, vy, vz, ax, ay, az]
    tags,       \* particles[i].ap: per body, a function from the names that are set to their values
    odes,       \* sim->odes: <<>> (NULL) or <<[length, y]>>, y a function on 0..length-1
    yDot,       \* the derivative vector last written by rebx_spin_derivatives
    pc,         \* "idle", "pre_done", "stepping", "advanced", "exited" (exit()), "crashed" (SIGSEGV)
    steps,      \* state-vector updates made by the ODE solver
    lastOp,     \* the function of this file that ran last
    calls,      \* the kernel invocations of the last rebx_tides_spin / rebx_spin_derivatives
    touched,    \* the indices of ode->y, y, y0, yDot accessed by the last sync / derivative call
    validated,  \* Nspins*3 as compared with ode->length by the last sync / derivative call
    edits,      \* tag edits by the user since the ODE was created: "none", "spinAdded", "other"
    warned,     \* the last rebx_tides_spin called reb_warning
    args,       \* the arguments of the last sigma helper call
    ret,        \* return value of the last sigma helper
    err         \* the last sigma helper called rebx_error

vars == <<particles, tags, odes, yDot, pc, steps, lastOp, calls, touched, validated, edits, warned, args, ret, err>>

\* rebx_get_param(rebx, ap, name) != NULL
HasParam(ap, name) == name \in DOMAIN ap

\* rebx_set_param_double(rebx, &ap, name, v): create or update
SetParamDouble(ap, name, v) == [t \in DOMAIN ap \cup {name} |-> IF t = name THEN v ELSE ap[t]]

NoParams == [t \in {} |-> 0]

N_real == NBodies

\* ------------------------------------------------- pairwise accumulator
\* (a faulty split: both bodies weighted by m_target / m_total)
AddAccelerationsOneWeight(ps, i, j, fs, ft, tot_force) ==
    [ps EXCEPT ![j].ax = RSub(@, RMul(ft, tot_force.x)),
               ![j].ay = RSub(@, RMul(ft, tot_force.y)),
               ![j].az = RSub(@, RMul(ft, tot_force.z)),
               ![i].ax = RAdd(@, RMul(ft, tot_force.x)),
               ![i].ay = RAdd(@, RMul(ft, tot_force.y)),
               ![i].az = RAdd(@, RMul(ft, tot_force.z))]

\* lines 156-162: the force split into the two accelerations
AddAccelerations(ps, i, j, fs, ft, tot_force) ==
    [ps EXCEPT ![j].ax = RSub(@, RMul(fs, tot_force.x)),
               ![j].ay = RSub(@, RMul(fs, tot_force.y)),
               ![j].az = RSub(@, RMul(fs, tot_force.z)),
               ![i].ax = RAdd(@, RMul(ft, tot_force.x)),
               ![i].ay = RAdd(@, RMul(ft, tot_force.y)),
               ![i].az = RAdd(@, RMul(ft, tot_force.z))]

rebx_spin_orbit_accelerations(ps, i, j, Gc, k2, sigma, sx, sy, sz) ==
    LET ms == ps[i].m
        mt == ps[j].m
        mtot == ms + mt
    IN  AddAccelerations(ps, i, j, RDiv(Q(ms), Q(mtot)), RDiv(Q(mt), Q(mtot)),
            rebx_calculate_spin_orbit_accelerations(ps[i], ps[j], Gc, k2, sigma, sx, sy, sz))

\* line 314: all three spin components and k2
IsSource(ap) == HasParam(ap, "sx") /\ HasParam(ap, "sy") /\ HasParam(ap, "sz") /\ HasParam(ap, "k2")

\* (a faulty test: the target's mass not tested)
SkipPairSourceOnly(source, target) == source.m = 0

\* line 326
SkipPair(source, target) == source.m = 0 \/ target.m = 0

\* sigma_in: 0 when sigma is not set
SigmaIn(ap) == IF HasParam(ap, "sigma") THEN ap["sigma"] ELSE 0

KernelCall(i, j, k2, sigma, sx, sy, sz) ==
    [src |-> i, tgt |-> j, k2 |-> k2, sigma |-> sigma, spin |-> <<sx, sy, sz>>]

\* the loops of rebx_tides_spin over (i, j), st = [ps, calls]
RECURSIVE TidesSpinLoop(_, _, _, _)
TidesSpinLoop(st, tg, i, j) ==
    IF i = NBodies THEN st
    ELSE IF ~IsSource(tg[i]) \/ j = NBodies THEN TidesSpinLoop(st, tg, i + 1, 0)
    ELSE IF i = j \/ SkipPair(st.ps[i], st.ps[j]) THEN TidesSpinLoop(st, tg, i, j + 1)
    ELSE LET ap == tg[i]
             sigma_in == SigmaIn(ap)
         IN  TidesSpinLoop(
                 [ps |-> rebx_spin_orbit_accelerations(st.ps, i, j, G, ap["k2"], sigma_in, ap["sx"], ap["sy"], ap["sz"]),
                  calls |-> st.calls \cup {KernelCall(i, j, ap["k2"], sigma_in, ap["sx"], ap["sy"], ap["sz"])}],
                 tg, i, j + 1)

\* the accelerations the host has accumulated (gravity) before the additional forces are added
HostAcceleration(b) == [x |-> Q(b + 1), y |-> Q(0), z |-> Q(-1)]

FreshAccelerations == \A b \in Bodies :
    /\ particles[b].ax = HostAcceleration(b).x
    /\ particles[b].ay = HostAcceleration(b).y
    /\ particles[b].az = HostAcceleration(b).z

\* the host starts a force evaluation
HostGravity ==
    /\ pc \notin {"exited", "crashed"}
    /\ ~FreshAccelerations
    /\ particles' = [b \in Bodies |-> [particles[b] EXCEPT !.ax = HostAcceleration(b).x,
                                                           !.ay = HostAcceleration(b).y,
                                                           !.az = HostAcceleration(b).z]]
    /\ lastOp' = "host_gravity"
    /\ UNCHANGED <<tags, odes, yDot, pc, steps, calls, touched, validated, edits, warned, args, ret, err>>

\* rebx_tides_spin(sim, effect, particles, N), once per force evaluation
rebx_tides_spin ==
    /\ pc \notin {"exited", "crashed"}
    /\ FreshAccelerations
    /\ \E st \in {TidesSpinLoop([ps |-> particles, calls |-> {}], tags, 0, 0)} :
           /\ particles' = st.ps
           /\ calls' = st.calls
    /\ warned' = (odes = <<>>)
    /\ lastOp' = "tides_spin"
    /\ UNCHANGED <<tags, odes, yDot, pc, steps, touched, validated, edits, args, ret, err>>

\* ------------------------------------------------------------ spin ODE
\* C arrays are 0-based: slot k of a vector v is v[k + 1]
Rd(v, k) == v[k + 1]

\* a store to slot k; a store past the end lands outside the vector
Wr(v, k, x) == IF k < Len(v) THEN [v EXCEPT ![k + 1] = x] ELSE v

\* values of memory the program never initialised (malloc'ed vectors, reads past the end)
Garbage == {-1}

\* line 279: moi and a full spin vector
TrackedByInit(ap) == HasParam(ap, "moi") /\ HasParam(ap, "sx") /\ HasParam(ap, "sy") /\ HasParam(ap, "sz")

\* lines 230 and 255: k2
TrackedBySync(ap) == HasParam(ap, "k2")

\* line 178: k2 and moi
TrackedByDerivatives(ap) == HasParam(ap, "k2") /\ HasParam(ap, "moi")

\* Nspins of rebx_spin_initialize_ode
RECURSIVE InitCount(_, _)
InitCount(tg, i) ==
    IF i = N_real THEN 0
    ELSE (IF TrackedByInit(tg[i]) THEN 1 ELSE 0) + InitCount(tg, i + 1)

\* reb_create_ode(sim, length): the vectors are allocated, not filled
CreateOde(length, g) == [length |-> length, y |-> [k \in 1..length |-> g]]

rebx_spin_initialize_ode ==
    /\ pc = "idle"
    /\ odes = <<>>
    /\ LET Nspins == InitCount(tags, 0)
       IN  IF Nspins > 0
           THEN \E g \in Garbage :
                    /\ odes' = <<CreateOde(Nspins * 3, g)>>
                    /\ yDot' = [k \in 1..(Nspins * 3) |-> Q(g)]
           ELSE UNCHANGED <<odes, yDot>>
    /\ edits' = "none"
    /\ lastOp' = "initialize_ode"
    /\ UNCHANGED <<particles, tags, pc, steps, calls, touched, validated, warned, args, ret, err>>

\* lines 234-236: the body's sx, sy, sz stored into its group of ode->y
StoreSpin(y, ap, n) == Wr(Wr(Wr(y, 3 * n, ap["sx"]), 3 * n + 1, ap["sy"]), 3 * n + 2, ap["sz"])

\* the loop of rebx_spin_sync_pre, st = [y, Nspins, touched, fault];
\* fault: *sx, *sy or *sz read through a NULL pointer
RECURSIVE SyncPreLoop(_, _, _)
SyncPreLoop(st, tg, i) ==
    IF i = N_real \/ st.fault THEN st
    ELSE IF ~TrackedBySync(tg[i]) THEN SyncPreLoop(st, tg, i + 1)
    ELSE IF ~(HasParam(tg[i], "sx") /\ HasParam(tg[i], "sy") /\ HasParam(tg[i], "sz"))
         THEN [st EXCEPT !.fault = TRUE]
    ELSE LET n == st.Nspins
         IN  SyncPreLoop(
                 [y |-> StoreSpin(st.y, tg[i], n),
                  Nspins |-> n + 1,
                  touched |-> st.touched \cup {3 * n, 3 * n + 1, 3 * n + 2},
                  fault |-> FALSE],
                 tg, i + 1)

\* what follows the loops: a read through NULL kills the process; an access
\* past the end of a vector may kill it or go unnoticed; a length mismatch is
\* reb_error and exit()
AfterLoop(fault, Nspins, length, ok) ==
    IF fault THEN {"crashed"}
    ELSE IF length # Nspins * 3
         THEN (IF Nspins * 3 > length THEN {"exited", "crashed"} ELSE {"exited"})
         ELSE {ok}

rebx_spin_sync_pre ==
    /\ pc = "idle"
    /\ odes # <<>>
    /\ \E st \in {SyncPreLoop([y |-> odes[1].y, Nspins |-> 0, touched |-> {}, fault |-> FALSE], tags, 0)} :
           /\ odes' = <<[odes[1] EXCEPT !.y = st.y]>>
           /\ touched' = st.touched
           /\ validated' = st.Nspins * 3
           /\ pc' \in AfterLoop(st.fault, st.Nspins, odes[1].length, "pre_done")
    /\ lastOp' = "sync_pre"
    /\ UNCHANGED <<particles, tags, yDot, steps, calls, edits, warned, args, ret, err>>

\* lines 208-210: yDot[3*Nspins + c] += (r x tf)_c * (-mu_ij / moi)
AddTorque(t, tf, fac, dx, dy, dz) ==
    <<RAdd(t[1], RMul(RSub(RMul(Q(dy), tf.z), RMul(Q(dz), tf.y)), fac)),
      RAdd(t[2], RMul(RSub(RMul(Q(dz), tf.x), RMul(Q(dx), tf.z)), fac)),
      RAdd(t[3], RMul(RSub(RMul(Q(dx), tf.y), RMul(Q(dy), tf.x)), fac))>>

\* the inner loop of rebx_spin_derivatives over j, for body i with spin (sx, sy, sz):
\* acc = [t: the three yDot entries of the body, calls]
RECURSIVE TorqueLoop(_, _, _, _, _, _)
TorqueLoop(acc, ps, ap, i, j, spin) ==
    IF j = N_real THEN acc
    ELSE IF i = j THEN TorqueLoop(acc, ps, ap, i, j + 1, spin)
    ELSE LET dx == ps[i].x - ps[j].x
             dy == ps[i].y - ps[j].y
             dz == ps[i].z - ps[j].z
             mi == ps[i].m
             mj == ps[j].m
             sigma_in == SigmaIn(ap)
         IN  TorqueLoop(
                 [t |-> AddTorque(acc.t,
                            rebx_calculate_spin_orbit_accelerations(ps[i], ps[j], G, ap["k2"], sigma_in, spin[1], spin[2], spin[3]),
                            RDiv(RNeg(RDiv(Q(mi * mj), Q(mi + mj))), Q(ap["moi"])),
                            dx, dy, dz),
                  calls |-> acc.calls \cup {KernelCall(i, j, ap["k2"], sigma_in, spin[1], spin[2], spin[3])}],
                 ps, ap, i, j + 1, spin)

\* lines 186-188, 208-210, 213: the body's three entries stored, Nspins advanced
StoreDerivative(st, acc) ==
    [yDot |-> Wr(Wr(Wr(st.yDot, 3 * st.Nspins, acc.t[1]), 3 * st.Nspins + 1, acc.t[2]), 3 * st.Nspins + 2, acc.t[3]),
     Nspins |-> st.Nspins + 1,
     calls |-> acc.calls,
     touched |-> st.touched \cup {3 * st.Nspins, 3 * st.Nspins + 1, 3 * st.Nspins + 2}]

\* lines 190-192: the body's spin read from y; g: what a read past the end yields
ReadSpin(y, n, g) ==
    IF 3 * n + 2 < Len(y) THEN <<Rd(y, 3 * n), Rd(y, 3 * n + 1), Rd(y, 3 * n + 2)>> ELSE <<g, g, g>>

\* the outer loop of rebx_spin_derivatives, st = [yDot, Nspins, calls, touched]
RECURSIVE DerivativesLoop(_, _, _, _, _, _)
DerivativesLoop(st, ps, tg, y, g, i) ==
    IF i = N_real THEN st
    ELSE IF ~TrackedByDerivatives(tg[i]) THEN DerivativesLoop(st, ps, tg, y, g, i + 1)
    ELSE DerivativesLoop(
             StoreDerivative(st, TorqueLoop([t |-> <<Q(0), Q(0), Q(0)>>, calls |-> st.calls],
                                            ps, tg[i], i, 0, ReadSpin(y, st.Nspins, g))),
             ps, tg, y, g, i + 1)

\* rebx_spin_derivatives(ode, yDot, y, t), called by the solver with the ODE's vectors
rebx_spin_derivatives ==
    /\ pc \in {"pre_done", "stepping"}
    /\ \E g \in Garbage :
         \E st \in {DerivativesLoop([yDot |-> yDot, Nspins |-> 0, calls |-> {}, touched |-> {}],
                                    particles, tags, odes[1].y, g, 0)} :
             /\ yDot' = st.yDot
             /\ calls' = st.calls
             /\ touched' = st.touched
             /\ validated' = st.Nspins * 3
             /\ pc' \in AfterLoop(FALSE, st.Nspins, odes[1].length, "stepping")
    /\ lastOp' = "derivatives"
    /\ UNCHANGED <<particles, tags, odes, steps, edits, warned, args, ret, err>>

\* the increments the solver applies to the state vector
SolverDeltas == {10}

\* the ODE solver advances the state vector (after at least one derivative evaluation)
SolverUpdate ==
    /\ pc = "stepping"
    /\ steps < MaxSteps
    /\ \E d \in SolverDeltas :
         odes' = <<[odes[1] EXCEPT !.y = [k \in 1..Len(odes[1].y) |-> odes[1].y[k] + d]]>>
    /\ steps' = steps + 1
    /\ pc' = "advanced"
    /\ lastOp' = "solver_update"
    /\ UNCHANGED <<particles, tags, yDot, calls, touched, validated, edits, warned, args, ret, err>>

\* slot k of y0; g: what a read past the end yields
ReadSlot(y0, k, g) == IF k < Len(y0) THEN Rd(y0, k) ELSE g

\* (a faulty write-back: the group read one slot too far)
WriteBackShifted(ap, y0, g, n) ==
    SetParamDouble(SetParamDouble(SetParamDouble(ap,
        "sx", ReadSlot(y0, 3 * n + 1, g)), "sy", ReadSlot(y0, 3 * n + 2, g)), "sz", ReadSlot(y0, 3 * n + 3, g))

\* lines 256-258: the body's group of y0 copied into sx, sy, sz (created when absent)
WriteBack(ap, y0, g, n) ==
    SetParamDouble(SetParamDouble(SetParamDouble(ap,
        "sx", ReadSlot(y0, 3 * n, g)), "sy", ReadSlot(y0, 3 * n + 1, g)), "sz", ReadSlot(y0, 3 * n + 2, g))

\* the loop of rebx_spin_sync_post, st = [tg, Nspins, touched]
RECURSIVE SyncPostLoop(_, _, _, _)
SyncPostLoop(st, y0, g, i) ==
    IF i = N_real THEN st
    ELSE IF ~TrackedBySync(st.tg[i]) THEN SyncPostLoop(st, y0, g, i + 1)
    ELSE LET n == st.Nspins
         IN  SyncPostLoop(
                 [tg |-> [st.tg EXCEPT ![i] = WriteBack(@, y0, g, n)],
                  Nspins |-> n + 1,
                  touched |-> st.touched \cup {3 * n, 3 * n + 1, 3 * n + 2}],
                 y0, g, i + 1)

\* rebx_spin_sync_post(ode, y0), called by the solver with y0 = ode->y
rebx_spin_sync_post ==
    /\ pc \in {"pre_done", "stepping", "advanced"}
    /\ \E g \in Garbage :
         \E st \in {SyncPostLoop([tg |-> tags, Nspins |-> 0, touched |-> {}], odes[1].y, g, 0)} :
             /\ tags' = st.tg
             /\ touched' = st.touched
             /\ validated' = st.Nspins * 3
             /\ pc' \in AfterLoop(FALSE, st.Nspins, odes[1].length, "idle")
    /\ lastOp' = "sync_post"
    /\ UNCHANGED <<particles, odes, yDot, steps, calls, edits, warned, args, ret, err>>

\* ------------------------------------------------------ the user's edits
\* the value the user gives a parameter
UserVal(b, name) ==
    CASE name = "k2" -> 1
      [] name = "sigma" -> 1
      [] name = "moi" -> 2
      [] name = "sx" -> 3 * b + 1
      [] name = "sy" -> 3 * b + 2
      [] name = "sz" -> 3 * b + 3

\* "spinAdded": spin components were added to bodies, and nothing else was edited
EditKind(name) ==
    IF odes = <<>> THEN "none"
    ELSE IF name \in SpinTags /\ edits # "other" THEN "spinAdded"
    ELSE "other"

\* rebx_set_param_double by the user, between steps
SetParam(b, name) ==
    /\ pc = "idle"
    /\ ~HasParam(tags[b], name)
    /\ tags' = [tags EXCEPT ![b] = SetParamDouble(@, name, UserVal(b, name))]
    /\ edits' = EditKind(name)
    /\ lastOp' = "set_param"
    /\ UNCHANGED <<particles, odes, yDot, pc, steps, calls, touched, validated, warned, args, ret, err>>

\* -------------------------------------------------------- sigma helpers
\* (a faulty helper: the radius not tested)
SigmaFromTauNoRadiusTest(ap, body, tau) ==
    IF HasParam(ap, "k2")
    THEN [ret |-> RDiv(Q(4 * tau * G), Q(3 * body.r * body.r * body.r * body.r * body.r * ap["k2"])),
          err |-> FALSE]
    ELSE [ret |-> Q(0), err |-> TRUE]

\* rebx_tides_calc_sigma_from_tau(rebx, body, tau): [ret, err]
rebx_tides_calc_sigma_from_tau(ap, body, tau) ==
    IF HasParam(ap, "k2") /\ body.r # 0
    THEN [ret |-> RDiv(Q(4 * tau * G), Q(3 * body.r * body.r * body.r * body.r * body.r * ap["k2"])),
          err |-> FALSE]
    ELSE [ret |-> Q(0), err |-> TRUE]

\* rebx_tides_calc_sigma_from_Q(rebx, body, primary, Q), n: orb.n of reb_tools_particle_to_orbit
rebx_tides_calc_sigma_from_Q(ap, body, n, Qf) ==
    IF HasParam(ap, "k2") /\ body.r # 0
    THEN [ret |-> RDiv(Q(2 * G), Q(3 * Qf * body.r * body.r * body.r * body.r * body.r * ap["k2"] * n)),
          err |-> FALSE]
    ELSE [ret |-> Q(0), err |-> TRUE]

\* the arguments callers pass
Taus == {1, 2, 3}
Qs == {1, 2}
\* the mean motions reb_tools_particle_to_orbit returns
MeanMotions == {1, 2}

SigmaFromTau(b, tau) ==
    /\ pc = "idle"
    /\ \E res \in {rebx_tides_calc_sigma_from_tau(tags[b], particles[b], tau)} :
           /\ ret' = res.ret
           /\ err' = res.err
    /\ args' = <<b, tau, 0>>
    /\ lastOp' = "sigma_from_tau"
    /\ UNCHANGED <<particles, tags, odes, yDot, pc, steps, calls, touched, validated, edits, warned>>

SigmaFromQ(b, primary, n, Qf) ==
    /\ pc = "idle"
    /\ b # primary
    /\ \E res \in {rebx_tides_calc_sigma_from_Q(tags[b], particles[b], n, Qf)} :
           /\ ret' = res.ret
           /\ err' = res.err
    /\ args' = <<b, Qf, n>>
    /\ lastOp' = "sigma_from_Q"
    /\ UNCHANGED <<particles, tags, odes, yDot, pc, steps, calls, touched, validated, edits, warned>>

\* ------------------------------------------------------- specification
Particle(b, m, r) ==
    [m |-> m, r |-> r, x |-> b + 1, y |-> 0, z |-> 0, vx |-> b, vy |-> b, vz |-> 0,
     ax |-> HostAcceleration(b).x, ay |-> HostAcceleration(b).y, az |-> HostAcceleration(b).z]

InitRest ==
    /\ odes = <<>>
    /\ yDot = <<>>
    /\ pc = "idle"
    /\ steps = 0
    /\ lastOp = "none"
    /\ calls = {}
    /\ touched = {}
    /\ validated = 0
    /\ edits = "none"
    /\ warned = FALSE
    /\ args = <<>>
    /\ ret = Q(0)
    /\ err = FALSE

\* the parameters the spin ODE's filters test (sigma only scales the derivative)
OdeTags == {"k2", "moi", "sx", "sy", "sz"}

\* the spin ODE: a simulation of unit-mass, unit-radius bodies, no parameter set yet
Init ==
    /\ particles = [b \in Bodies |-> Particle(b, 1, 1)]
    /\ tags = [b \in Bodies |-> NoParams]
    /\ InitRest

Next ==
    \/ \E b \in Bodies, name \in OdeTags : SetParam(b, name)
    \/ rebx_spin_initialize_ode
    \/ rebx_spin_sync_pre
    \/ rebx_spin_derivatives
    \/ SolverUpdate
    \/ rebx_spin_sync_post

Spec == Init /\ [][Next]_vars

\* the forces: any set of parameters on each body, masses 0, 1 or 2
ParamsOf(b, S) == [t \in S |-> UserVal(b, t)]

InitForce ==
    /\ \E ms \in [Bodies -> {0, 1, 2}] : particles = [b \in Bodies |-> Particle(b, ms[b], 1)]
    /\ \E S \in [Bodies -> SUBSET Tags] : tags = [b \in Bodies |-> ParamsOf(b, S[b])]
    /\ InitRest

NextForce ==
    \/ HostGravity
    \/ rebx_tides_spin
    \/ rebx_spin_initialize_ode

SpecForce == InitForce /\ [][NextForce]_vars

\* the spin ODE and the forces with masses 0, 1 or 2
InitMass ==
    /\ \E ms \in [Bodies -> {0, 1, 2}] : particles = [b \in Bodies |-> Particle(b, ms[b], 1)]
    /\ tags = [b \in Bodies |-> NoParams]
    /\ InitRest

NextMass ==
    \/ Next
    \/ HostGravity
    \/ rebx_tides_spin

SpecMass == InitMass /\ [][NextMass]_vars

\* the sigma helpers: radius 0, 1 or 2, k2 not set or 0, 1 or 2
K2Params == {NoParams} \cup {[t \in {"k2"} |-> v] : v \in {0, 1, 2}}

InitSigma ==
    /\ \E rs \in [Bodies -> {0, 1, 2}] : particles = [b \in Bodies |-> Particle(b, 1, rs[b])]
    /\ tags \in [Bodies -> K2Params]
    /\ InitRest

NextSigma ==
    \/ \E b \in Bodies, tau \in Taus : SigmaFromTau(b, tau)
    \/ \E b \in Bodies, primary \in Bodies, n \in MeanMotions, Qf \in Qs : SigmaFromQ(b, primary, n, Qf)

SpecSigma == InitSigma /\ [][NextSigma]_vars

\* ============================================================== claims
Dead == pc \in {"exited", "crashed"}

FullSpin(ap) == SpinTags \subseteq DOMAIN ap

\* C1: the length rebx_spin_sync_pre and rebx_spin_sync_post validate is 3 x the
\* number of bodies with moi and a full spin vector; with the ODE created and no
\* parameter edited since, their validation passes (no reb_error and exit).
\* (Stated for the configurations the file header documents: a body is a point
\* particle, or has k2 and sx, sy, sz, with moi and sigma optional.)
Documented == \A b \in Bodies : DOMAIN tags[b] = {} \/ (HasParam(tags[b], "k2") /\ FullSpin(tags[b]))

CexC1 ==
    (odes # <<>> /\ Documented /\ lastOp \in {"sync_pre", "sync_post"} /\ pc # "crashed")
        => /\ validated = 3 * InitCount(tags, 0)
           /\ edits = "none" => pc # "exited"

\* C2: the ODE was created, then spin components were added to a body that was not
\* tracked (so that more bodies have moi and a full spin vector than the ODE has
\* groups): rebx_spin_derivatives reaches the fatal length-mismatch path.
CexC2 ==
    (lastOp = "derivatives" /\ edits = "spinAdded" /\ 3 * InitCount(tags, 0) > odes[1].length)
        => Dead

\* C3: rebx_spin_sync_pre passed its validation and the state vector was not
\* modified since: rebx_spin_sync_post leaves every sx, sy, sz of every body as it
\* was and creates no parameter.
InvC3 == [][(lastOp' = "sync_post" /\ pc \in {"pre_done", "stepping"}) => tags' = tags]_vars

WitC3 ==
    /\ lastOp = "sync_post"
    /\ pc = "idle"
    /\ steps = 0
    /\ \E b \in Bodies : TrackedBySync(tags[b]) /\ FullSpin(tags[b])

\* C4: a body with k2 and a full spin vector but no moi keeps the spin the user gave
\* it, and the step cycles of an ODE created with it complete without the fatal path.
CexC4 ==
    \A b \in Bodies :
        (odes # <<>> /\ edits = "none" /\ HasParam(tags[b], "k2") /\ FullSpin(tags[b]) /\ ~HasParam(tags[b], "moi"))
            => /\ ~Dead
               /\ \A t \in SpinTags : tags[b][t] = UserVal(b, t)

\* C5: every invocation of the force kernel, from rebx_tides_spin and from
\* rebx_spin_derivatives, has a nonzero source mass and a nonzero target mass.
CexC5 == \A c \in calls : particles[c.src].m # 0 /\ particles[c.tgt].m # 0

\* the mass-weighted sum, over the bodies from b on, of the change of one
\* acceleration component (f: "ax", "ay" or "az"; h: "x", "y" or "z")
RECURSIVE WeightedChange(_, _, _)
WeightedChange(b, f, h) ==
    IF b = NBodies THEN Q(0)
    ELSE RAdd(RMul(Q(particles[b].m), RSub(particles[b][f], HostAcceleration(b)[h])),
              WeightedChange(b + 1, f, h))

\* one pair evaluation on the current accelerations: source i, target j
PairBalanced(i, j) ==
    LET ap == tags[i]
        mi == particles[i].m
        mj == particles[j].m
        F == rebx_calculate_spin_orbit_accelerations(particles[i], particles[j], G,
                 ap["k2"], SigmaIn(ap), ap["sx"], ap["sy"], ap["sz"])
        ps == rebx_spin_orbit_accelerations(particles, i, j, G,
                 ap["k2"], SigmaIn(ap), ap["sx"], ap["sy"], ap["sz"])
        ds == RSub(ps[i].ax, particles[i].ax)
        dt == RSub(ps[j].ax, particles[j].ax)
    IN  /\ RAdd(RMul(Q(mi), ds), RMul(Q(mj), dt)) = Q(0)
        /\ RMul(Q(mi + mj), ds) = RMul(Q(mj), F.x)
        /\ RMul(Q(mi + mj), dt) = RNeg(RMul(Q(mi), F.x))
        /\ RAdd(RMul(Q(mi), RSub(ps[i].ay, particles[i].ay)), RMul(Q(mj), RSub(ps[j].ay, particles[j].ay))) = Q(0)
        /\ RAdd(RMul(Q(mi), RSub(ps[i].az, particles[i].az)), RMul(Q(mj), RSub(ps[j].az, particles[j].az))) = Q(0)

\* C6: a pair evaluation with nonzero masses changes the two accelerations by
\* +(m_target/m_total) F and -(m_source/m_total) F, so that
\* m_source da_source + m_target da_target = 0; after rebx_tides_spin the
\* mass-weighted sum of the acceleration changes of all bodies is 0.
InvC6 ==
    /\ WeightedChange(0, "ax", "x") = Q(0)
    /\ WeightedChange(0, "ay", "y") = Q(0)
    /\ WeightedChange(0, "az", "z") = Q(0)
    /\ \A i, j \in Bodies :
           (i # j /\ particles[i].m # 0 /\ particles[j].m # 0 /\ HasParam(tags[i], "k2") /\ FullSpin(tags[i]))
               => PairBalanced(i, j)

WitC6 ==
    /\ lastOp = "tides_spin"
    /\ particles[0].m = 1
    /\ particles[1].m = 2
    /\ particles[0].ax # HostAcceleration(0).x
    /\ particles[1].ax # HostAcceleration(1).x

\* the kernel invocations C7 states, with their arguments
ExpectedCalls ==
    {[src |-> p[1], tgt |-> p[2], k2 |-> tags[p[1]]["k2"],
      sigma |-> IF "sigma" \in DOMAIN tags[p[1]] THEN tags[p[1]]["sigma"] ELSE 0,
      spin |-> <<tags[p[1]]["sx"], tags[p[1]]["sy"], tags[p[1]]["sz"]>>] :
        p \in {q \in Bodies \X Bodies :
                  /\ q[1] # q[2]
                  /\ {"k2", "sx", "sy", "sz"} \subseteq DOMAIN tags[q[1]]
                  /\ particles[q[1]].m # 0
                  /\ particles[q[2]].m # 0}}

\* C7: rebx_tides_spin evaluates the kernel for (i, j) exactly when i # j, body i
\* has k2, sx, sy and sz and both masses are nonzero, passing 0 for an absent sigma;
\* a body in no such pair keeps its acceleration; without an ODE there is a
\* warning and nothing else differs.
InvC7 ==
    lastOp = "tides_spin"
        => /\ calls = ExpectedCalls
           /\ warned = (odes = <<>>)
           /\ pc = "idle"
           /\ \A b \in Bodies :
                  (\A c \in ExpectedCalls : c.src # b /\ c.tgt # b)
                      => /\ particles[b].ax = HostAcceleration(b).x
                         /\ particles[b].ay = HostAcceleration(b).y
                         /\ particles[b].az = HostAcceleration(b).z

WitC7 ==
    /\ lastOp = "tides_spin"
    /\ odes = <<>>
    /\ warned
    /\ \E c \in calls : c.sigma = 0 /\ ~HasParam(tags[c.src], "sigma")
    /\ \E b \in Bodies : HasParam(tags[b], "sx") /\ ~IsSource(tags[b])
    /\ particles[0].ax # HostAcceleration(0).x

\* C8: without k2 or with radius 0 the sigma helpers call rebx_error and return 0,
\* and the run goes on with the body as it was; otherwise there is no error and the
\* value is 4 tau G / (3 R^5 k2), respectively 2 G / (3 Q R^5 k2 n).
InvC8 ==
    lastOp \in {"sigma_from_tau", "sigma_from_Q"}
        => LET b == args[1]
               a == args[2]
               n == args[3]
               R == particles[b].r
               R5 == R * R * R * R * R
           IN  /\ pc = "idle"
               /\ particles[b] = Particle(b, 1, R)
               /\ tags[b] \in K2Params
               /\ IF ~("k2" \in DOMAIN tags[b]) \/ R = 0
                  THEN err /\ ret = Q(0)
                  ELSE /\ ~err
                       /\ IF tags[b]["k2"] = 0
                          THEN ~Finite(ret)
                          ELSE /\ Finite(ret)
                               /\ IF lastOp = "sigma_from_tau"
                                  THEN ret[1] * (3 * R5 * tags[b]["k2"]) = 4 * a * G * ret[2]
                                  ELSE ret[1] * (3 * a * R5 * tags[b]["k2"] * n) = 2 * G * ret[2]

WitC8 ==
    /\ lastOp \in {"sigma_from_tau", "sigma_from_Q"}
    /\ ~err
    /\ Finite(ret)
    /\ particles[args[1]].r = 2

\* the group of the state vector a filter gives body b: -1 when it gives none
RECURSIVE CountBefore(_, _, _)
CountBefore(Tracked(_), tg, b) ==
    IF b = 0 THEN 0
    ELSE (IF Tracked(tg[b - 1]) THEN 1 ELSE 0) + CountBefore(Tracked, tg, b - 1)

SlotOf(Tracked(_), tg, b) == IF Tracked(tg[b]) THEN CountBefore(Tracked, tg, b) ELSE -1

\* C9: every body has the same group of the state vector in
\* rebx_spin_initialize_ode, rebx_spin_sync_pre, rebx_spin_derivatives and
\* rebx_spin_sync_post (here: once rebx_spin_sync_pre has passed its validation).
CexC9 ==
    pc = "pre_done"
        => \A b \in Bodies :
               /\ SlotOf(TrackedBySync, tags, b) = SlotOf(TrackedByInit, tags, b)
               /\ SlotOf(TrackedBySync, tags, b) = SlotOf(TrackedByDerivatives, tags, b)

\* C10: every index rebx_spin_sync_pre, rebx_spin_derivatives and
\* rebx_spin_sync_post use on ode->y, y, y0 and yDot is below ode->length.
CexC10 == odes # <<>> => \A k \in touched : k < odes[1].length

====
